---- MODULE Spec2Model ----
(***************************************************************************)
(* A model of volatility/cli/volshell/shellplugin.py: the Volshell plugin, *)
(* its layer selection (run, change_layer, _read_data), its dump formatter *)
(* (_display_data, _ascii_bytes), its disassembly dispatch (disassemble)   *)
(* and its type inspector (display_type).                                  *)
(*                                                                         *)
(* Text is modelled as sequences of one-character strings; a byte string   *)
(* as a sequence of integers in 0..255.  An unsigned integer produced by   *)
(* struct.unpack is kept as its base-256 digits, most significant first,   *)
(* because an 8-byte value does not fit TLC's 32-bit integers.              *)
(***************************************************************************)
EXTENDS Integers, Sequences, FiniteSets, TLC

VARIABLES
    pc,             \* where the program is: "constructed", "shell" (at the prompt),
                    \* "ran" (a command has run), "terminated"; "call" and "done"
                    \* around a single call of a function
    has_capstone,   \* module attribute has_capstone (the import succeeded or not)
    byteorder,      \* the host's native byte order, which struct's "B/H/I/Q" use
    current_layer,  \* Volshell._current_layer
    ps1,            \* sys.ps1, the prompt of the interactive shell
    last_switch,    \* history: the argument of the most recent change_layer call
    call,           \* the command being executed and its arguments
    stdout,         \* what that command printed, line by line
    result          \* how it ended: exception raised, layer that served it, decoder used

vars == <<pc, has_capstone, byteorder, current_layer, ps1, last_switch, call, stdout, result>>

(***************************************************************************)
(* Bounds of the model.                                                    *)
(***************************************************************************)
\* longest buffer handed to _display_data in SpecFmt
MaxLen == 35
\* most members of an object handed to display_type in SpecDt
MaxMembers == 3
\* largest explicit count argument of a session command
MaxCount == 9

(***************************************************************************)
(* Python values and builtins the code uses.                               *)
(***************************************************************************)
None == "None"

\* last_switch before the first change_layer call
NoSwitch == "no change_layer yet"

\* Python truthiness of an optional string argument: None and "" are falsy.
Truthy(x) == x # None /\ x # ""

Take(s, n) == SubSeq(s, 1, IF n < Len(s) THEN n ELSE Len(s))

Drop(s, n) == SubSeq(s, n + 1, Len(s))

\* s[a:b] for 0 <= a <= b
Slice(s, a, b) == SubSeq(s, a + 1, IF b < Len(s) THEN b ELSE Len(s))

Max(a, b) == IF a > b THEN a ELSE b

Repeat(c, n) == [i \in 1..n |-> c]

RECURSIVE Flatten(_)
Flatten(ss) == IF ss = <<>> THEN <<>> ELSE Head(ss) \o Flatten(Tail(ss))

\* sep.join(parts)
RECURSIVE Join(_, _)
Join(sep, parts) ==
    IF parts = <<>> THEN <<>>
    ELSE IF Len(parts) = 1 THEN Head(parts)
    ELSE Head(parts) \o sep \o Join(sep, Tail(parts))

\* print(a, b, ...): the arguments separated by single spaces
Print_(args) == Join(<<" ">>, args)

HexDigits == <<"0", "1", "2", "3", "4", "5", "6", "7",
               "8", "9", "a", "b", "c", "d", "e", "f">>

HexVal(c) == CHOOSE n \in 0..15 : HexDigits[n + 1] = c

RECURSIVE HexStr(_)
HexStr(n) ==
    IF n < 16 THEN <<HexDigits[n + 1]>>
    ELSE HexStr(n \div 16) \o <<HexDigits[(n % 16) + 1]>>

\* hex(n)
hex(n) == IF n < 0 THEN <<"-", "0", "x">> \o HexStr(0 - n) ELSE <<"0", "x">> \o HexStr(n)

\* chr(x) for the code points 33..126, the only ones _ascii_bytes passes to it
\* (the grave accent, which a TLA+ string cannot hold, is written "U+0060")
Printable == <<"!", "\"", "#", "$", "%", "&", "'", "(", ")", "*", "+", ",", "-", ".", "/",
               "0", "1", "2", "3", "4", "5", "6", "7", "8", "9", ":", ";", "<", "=", ">", "?",
               "@", "A", "B", "C", "D", "E", "F", "G", "H", "I", "J", "K", "L", "M", "N", "O",
               "P", "Q", "R", "S", "T", "U", "V", "W", "X", "Y", "Z", "[", "\\", "]", "^", "_",
               "U+0060", "a", "b", "c", "d", "e", "f", "g", "h", "i", "j", "k", "l", "m", "n", "o",
               "p", "q", "r", "s", "t", "u", "v", "w", "x", "y", "z", "{", "|", "}", "~">>

chr(x) == Printable[x - 32]

\* struct.calcsize(format_string) for the four formats the display_* methods pass
calcsize(format_string) ==
    CASE format_string = "B" -> 1
      [] format_string = "H" -> 2
      [] format_string = "I" -> 4
      [] format_string = "Q" -> 8

Reverse(s) == [i \in 1..Len(s) |-> s[Len(s) + 1 - i]]

\* struct.unpack in big-endian order whatever the host: a mutant of unpack
unpack_bigendian(format_string, x) == x

\* struct.unpack(format_string, x)[0]: the unsigned integer the bytes x hold in the
\* host's native byte order, as its base-256 digits, most significant first
unpack(format_string, x) == IF byteorder = "little" THEN Reverse(x) ELSE x

\* ("{:0" + str(width) + "x}").format(value), value given by its base-256 digits:
\* the hex digits of the value without leading zeros, then zero-padded to width
RECURSIVE StripZeros(_)
StripZeros(s) == IF Len(s) > 1 /\ Head(s) = "0" THEN StripZeros(Tail(s)) ELSE s

FormatHex(value, width) ==
    LET digits == Flatten([i \in 1..Len(value) |->
                      <<HexDigits[(value[i] \div 16) + 1], HexDigits[(value[i] % 16) + 1]>>])
        s == StripZeros(digits)
    IN  IF Len(s) >= width THEN s ELSE Repeat("0", width - Len(s)) \o s

\* binascii.unhexlify(s)
unhexlify(s) == [i \in 1..(Len(s) \div 2) |-> 16 * HexVal(s[2 * i - 1]) + HexVal(s[2 * i])]

(***************************************************************************)
(* Volshell._ascii_bytes and Volshell._display_data.                       *)
(***************************************************************************)
\* _ascii_bytes with the lower bound off by one (32 <= x): a mutant
ascii_bytes_incl_space(bytes) ==
    Flatten([i \in 1..Len(unhexlify(bytes)) |->
        LET x == unhexlify(bytes)[i]
        IN  IF 32 <= x /\ x < 127 THEN <<IF x = 32 THEN " " ELSE chr(x)>> ELSE <<".">>])

_ascii_bytes(bytes) ==
    Flatten([i \in 1..Len(unhexlify(bytes)) |->
        LET x == unhexlify(bytes)[i]
        IN  IF 32 < x /\ x < 127 THEN <<chr(x)>> ELSE <<".">>])

\* remaining_data[:data_length - (data_length % chunk_size)]
Truncate(remaining_data, chunk_size) ==
    Take(remaining_data, Len(remaining_data) - (Len(remaining_data) % chunk_size))

\* offset += 10: a mutant of the row advance
AdvanceOffsetBy10(offset) == offset + 10

\* offset += 16
AdvanceOffset(offset) == offset + 16

\* the cells of a row, empty ones dropped
DataBlocks(current_line, chunk_size) ==
    LET blocks == [i \in 1..(16 \div chunk_size) |->
                      Slice(current_line, chunk_size * (i - 1), chunk_size * i)]
    IN  SelectSeq(blocks, LAMBDA x : x # <<>>)

ValidData(data_blocks, format_string, chunk_size) ==
    [i \in 1..Len(data_blocks) |->
        FormatHex(unpack(format_string, data_blocks[i]), 2 * chunk_size)]

\* padding that counts the bytes missing, not the cells: a mutant
PaddingDataPerByte(current_line, chunk_size) ==
    [i \in 1..(16 - Len(current_line)) |-> Repeat(" ", 2 * chunk_size)]

PaddingData(current_line, chunk_size) ==
    [i \in 1..((16 - Len(current_line)) \div chunk_size) |-> Repeat(" ", 2 * chunk_size)]

AsciiData(valid_data, chunk_size, ascii) ==
    IF ascii
    THEN LET connector == IF chunk_size < 2 THEN <<>> ELSE <<" ">>
         IN  Join(connector, [i \in 1..Len(valid_data) |-> _ascii_bytes(valid_data[i])])
    ELSE <<>>

\* the while loop of _display_data: one printed line per 16-byte row
RECURSIVE DisplayLoop(_, _, _, _)
DisplayLoop(offset, remaining_data, format_string, ascii) ==
    IF remaining_data = <<>> THEN <<>>
    ELSE LET chunk_size == calcsize(format_string)
             current_line == Take(remaining_data, 16)
             new_offset == AdvanceOffset(offset)
             data_blocks == DataBlocks(current_line, chunk_size)
             valid_data == ValidData(data_blocks, format_string, chunk_size)
             padding_data == PaddingData(current_line, chunk_size)
             hex_data == Join(<<" ">>, valid_data \o padding_data)
             ascii_data == AsciiData(valid_data, chunk_size, ascii)
         IN  << [kind |-> "row",
                 address |-> hex(new_offset),
                 hex_data |-> hex_data,
                 ascii_data |-> ascii_data,
                 text |-> Print_(<<hex(new_offset), <<" ", " ">>, hex_data,
                                   <<" ", " ">>, ascii_data>>)] >>
             \o DisplayLoop(new_offset, Drop(remaining_data, 16), format_string, ascii)

_display_data(offset, remaining_data, format_string, ascii) ==
    DisplayLoop(offset, Truncate(remaining_data, calcsize(format_string)),
                format_string, ascii)

(***************************************************************************)
(* SpecFmt: _display_data as a pure function of its arguments.             *)
(***************************************************************************)
FormatStrings == {"B", "H", "I", "Q"}

FmtOffsets == {0, 9, 4096, 16777200}

Patterns == { <<65, 0, 0, 0>>,
              <<31, 32, 33, 126, 127>>,
              <<0, 255, 128, 97, 57, 92, 10>> }

MakeData(p, L) == [i \in 1..L |-> p[((i - 1) % Len(p)) + 1]]

NoResult == [raised |-> "none", layer |-> None, decoder |-> None]

InitFmt ==
    /\ pc = "call"
    /\ has_capstone = TRUE
    /\ byteorder \in {"little", "big"}
    /\ current_layer = None
    /\ ps1 = None
    /\ last_switch = NoSwitch
    /\ \E offset \in FmtOffsets, p \in Patterns, L \in 0..MaxLen,
          fs \in FormatStrings, ascii \in BOOLEAN :
          call = [cmd |-> "_display_data", offset |-> offset, data |-> MakeData(p, L),
                  format_string |-> fs, ascii |-> ascii]
    /\ stdout = <<>>
    /\ result = NoResult

DisplayDataStep ==
    /\ pc = "call"
    /\ call.cmd = "_display_data"
    /\ stdout' = _display_data(call.offset, call.data, call.format_string, call.ascii)
    /\ pc' = "done"
    /\ UNCHANGED <<has_capstone, byteorder, current_layer, ps1, last_switch, call, result>>

NextFmt == DisplayDataStep

SpecFmt == InitFmt /\ [][NextFmt]_vars

(***************************************************************************)
(* The layer registry (context.layers) and the decoder library (capstone). *)
(* Neither is part of shellplugin.py; both are modelled from what the      *)
(* plugin asks of them.                                                    *)
(***************************************************************************)
\* self.config['primary']
Primary == "primary"

\* context.layers: a 64-bit paged layer, a 32-bit paged layer (intel.Intel32e is
\* a subclass of intel.Intel) and a physical layer, each mapping size bytes from 0
Layers == [primary      |-> [is_Intel32e |-> TRUE,  is_Intel |-> TRUE,  size |-> 136, salt |-> 1],
           kernel32     |-> [is_Intel32e |-> FALSE, is_Intel |-> TRUE,  size |-> 130, salt |-> 64],
           memory_layer |-> [is_Intel32e |-> FALSE, is_Intel |-> FALSE, size |-> 12,  salt |-> 125]]

\* the byte a layer holds at an address
LayerByte(name, address) == (Layers[name].salt + 7 * address) % 256

\* context.layers[name].read(offset, count)
LayerRead(name, offset, count) ==
    IF name \notin DOMAIN Layers
    THEN [raised |-> "LayerNotFound", layer |-> name, data |-> <<>>]
    ELSE IF offset + count > Layers[name].size
    THEN [raised |-> "ReadError", layer |-> name, data |-> <<>>]
    ELSE [raised |-> "none", layer |-> name,
          data |-> [i \in 1..count |-> LayerByte(name, offset + i - 1)]]

\* capstone.Cs(arch, mode) for the four entries of disasm_types
disasm_types == [intel   |-> "CS_ARCH_X86/CS_MODE_32",
                 intel64 |-> "CS_ARCH_X86/CS_MODE_64",
                 arm     |-> "CS_ARCH_ARM/CS_MODE_ARM",
                 arm64   |-> "CS_ARCH_ARM64/CS_MODE_ARM"]

\* Cs.disasm(data, offset), printed as "0x%x:\t%s\t%s": the decoder is a stand-in
\* that takes every byte for one instruction
Disasm(decoder, data, offset) ==
    [i \in 1..Len(data) |->
        [kind |-> "insn", address |-> hex(offset + i - 1), decoder |-> decoder,
         opcode |-> data[i]]]

(***************************************************************************)
(* Volshell: run, change_layer, _read_data, display_*, disassemble.        *)
(***************************************************************************)
\* count = 128, the default of every read command
DefaultCount == 128

Prompt(layer) == <<"(", layer, ") >>> ">>

\* layer_name or self.current_layer, with the default taken from the primary
\* layer whatever the current one is: a mutant
ResolveLayerPrimary(layer_name, current) == IF Truthy(layer_name) THEN layer_name ELSE Primary

\* layer_name or self.current_layer
ResolveLayer(layer_name, current) == IF Truthy(layer_name) THEN layer_name ELSE current

_read_data(offset, count, layer_name) ==
    LayerRead(ResolveLayer(layer_name, current_layer), offset, count)

\* change_layer that keeps the current layer when the name is not registered: a mutant
NewLayerValidated(layer_name) ==
    IF ~Truthy(layer_name) THEN Primary
    ELSE IF layer_name \in DOMAIN Layers THEN layer_name ELSE current_layer

\* the layer change_layer(layer_name) selects
NewLayer(layer_name) == IF ~Truthy(layer_name) THEN Primary ELSE layer_name

CapstoneNotice ==
    [kind |-> "notice",
     text |-> "Capstone not available - please install it to use the disassemble command"]

\* the architecture disassemble ends up with for a layer and its argument
Architecture(layer, architecture) ==
    IF Layers[layer].is_Intel32e THEN "intel64"
    ELSE IF Layers[layer].is_Intel THEN "intel"
    ELSE architecture

\* disassemble without the has_capstone test: a mutant
DisassembleUnguarded(offset, remaining_data, layer, architecture) ==
    IF ~has_capstone THEN [raised |-> "NameError", decoder |-> None, lines |-> <<>>]
    ELSE LET arch == Architecture(layer, architecture)
         IN  IF arch = None THEN [raised |-> "none", decoder |-> None, lines |-> <<>>]
             ELSE IF arch \notin DOMAIN disasm_types
             THEN [raised |-> "KeyError", decoder |-> None, lines |-> <<>>]
             ELSE [raised |-> "none", decoder |-> disasm_types[arch],
                   lines |-> Disasm(disasm_types[arch], remaining_data, offset)]

\* disassemble once the data is read
Disassemble(offset, remaining_data, layer, architecture) ==
    IF ~has_capstone
    THEN [raised |-> "none", decoder |-> None, lines |-> <<CapstoneNotice>>]
    ELSE LET arch == Architecture(layer, architecture)
         IN  IF arch = None THEN [raised |-> "none", decoder |-> None, lines |-> <<>>]
             ELSE IF arch \notin DOMAIN disasm_types
             THEN [raised |-> "KeyError", decoder |-> None, lines |-> <<>>]
             ELSE [raised |-> "none", decoder |-> disasm_types[arch],
                   lines |-> Disasm(disasm_types[arch], remaining_data, offset)]

(***************************************************************************)
(* Volshell.display_type.                                                  *)
(***************************************************************************)
RECURSIVE LongestMember(_)
LongestMember(members) ==
    IF members = <<>> THEN 0
    ELSE Max(Len(members[Len(members)].name), LongestMember(SubSeq(members, 1, Len(members) - 1)))

\* longest_offset without the max: the length of the last member's offset: a mutant
LongestOffsetLast(members) ==
    IF members = <<>> THEN 0 ELSE Len(hex(members[Len(members)].relative_offset))

RECURSIVE LongestOffset(_)
LongestOffset(members) ==
    IF members = <<>> THEN 0
    ELSE Max(Len(hex(members[Len(members)].relative_offset)),
             LongestOffset(SubSeq(members, 1, Len(members) - 1)))

display_type_lines(members) ==
    [i \in 1..Len(members) |->
        LET m == members[i]
            offset_pad == Repeat(" ", LongestOffset(members) - Len(hex(m.relative_offset)))
            member_pad == Repeat(" ", LongestMember(members) - Len(m.name))
        IN  [kind |-> "member",
             text |-> Print_(<<offset_pad, hex(m.relative_offset), <<"\t", "\t">>, m.name,
                               member_pad, <<"\t", "\t">>, m.type_name>>)]]

(***************************************************************************)
(* Spec: an interactive session.                                           *)
(***************************************************************************)
LayerArgs == {None, "", "primary", "kernel32", "memory_layer", "bogus"}

ArchArgs == {None, "intel", "intel64", "arm", "arm64", "mips"}

Offsets == {0, 8}

Counts == (0..MaxCount) \cup {DefaultCount}

EPROCESS == << [name |-> <<"P", "c", "b">>, relative_offset |-> 0,
                type_name |-> <<"_", "K", "P", "R", "O", "C", "E", "S", "S">>],
               [name |-> <<"U", "n", "i", "q", "u", "e", "I", "d">>, relative_offset |-> 736,
                type_name |-> <<"p", "o", "i", "n", "t", "e", "r">>],
               [name |-> <<"L", "i", "n", "k", "s">>, relative_offset |-> 24,
                type_name |-> <<"_", "L", "I", "S", "T">>] >>

Objects == { <<>>, EPROCESS }

Init ==
    /\ pc = "constructed"
    /\ has_capstone \in BOOLEAN
    /\ byteorder \in {"little", "big"}
    /\ current_layer = None
    /\ ps1 = None
    /\ last_switch = NoSwitch
    /\ call = [cmd |-> "__init__"]
    /\ stdout = <<>>
    /\ result = NoResult

run ==
    /\ pc = "constructed"
    /\ pc' = "shell"
    /\ current_layer' = Primary
    /\ ps1' = Prompt(current_layer')
    /\ call' = [cmd |-> "run"]
    /\ \E readline \in BOOLEAN :
          stdout' = IF readline
                    THEN <<[kind |-> "notice", text |-> "Readline imported successfully"]>>
                    ELSE <<>>
    /\ result' = NoResult
    /\ UNCHANGED <<has_capstone, byteorder, last_switch>>

change_layer(layer_name) ==
    /\ pc = "shell"
    /\ current_layer' = NewLayer(layer_name)
    /\ ps1' = Prompt(current_layer')
    /\ last_switch' = layer_name
    /\ call' = [cmd |-> "change_layer", layer_name |-> layer_name]
    /\ stdout' = <<>>
    /\ result' = NoResult
    /\ pc' = "ran"
    /\ UNCHANGED <<has_capstone, byteorder>>

\* the body shared by display_bytes, display_quadwords, display_doublewords and
\* display_words: _read_data, then _display_data with the method's format string
Display(cmd, format_string, offset, count, layer_name) ==
    LET r == _read_data(offset, count, layer_name)
    IN  /\ call' = [cmd |-> cmd, offset |-> offset, count |-> count, layer_name |-> layer_name]
        /\ stdout' = IF r.raised = "none"
                     THEN _display_data(offset, r.data, format_string, TRUE)
                     ELSE <<>>
        /\ result' = [raised |-> r.raised, layer |-> r.layer, decoder |-> None]
        /\ pc' = "ran"
        /\ UNCHANGED <<has_capstone, byteorder, current_layer, ps1, last_switch>>

display_bytes ==
    /\ pc = "shell"
    /\ \E offset \in Offsets, count \in Counts, layer_name \in LayerArgs :
          Display("display_bytes", "B", offset, count, layer_name)

display_quadwords ==
    /\ pc = "shell"
    /\ \E offset \in Offsets, count \in Counts, layer_name \in LayerArgs :
          Display("display_quadwords", "Q", offset, count, layer_name)

display_doublewords ==
    /\ pc = "shell"
    /\ \E offset \in Offsets, count \in Counts, layer_name \in LayerArgs :
          Display("display_doublewords", "I", offset, count, layer_name)

display_words ==
    /\ pc = "shell"
    /\ \E offset \in Offsets, count \in Counts, layer_name \in LayerArgs :
          Display("display_words", "H", offset, count, layer_name)

disassemble(offset, count, layer_name, architecture) ==
    LET r == _read_data(offset, count, layer_name)
        d == IF r.raised = "none"
             THEN Disassemble(offset, r.data, r.layer, architecture)
             ELSE [raised |-> r.raised, decoder |-> None, lines |-> <<>>]
    IN  /\ pc = "shell"
        /\ call' = [cmd |-> "disassemble", offset |-> offset, count |-> count,
                    layer_name |-> layer_name, architecture |-> architecture]
        /\ stdout' = d.lines
        /\ result' = [raised |-> d.raised, layer |-> r.layer, decoder |-> d.decoder]
        /\ pc' = "ran"
        /\ UNCHANGED <<has_capstone, byteorder, current_layer, ps1, last_switch>>

display_type(object) ==
    /\ pc \in {"shell", "call"}
    /\ call' = [cmd |-> "display_type", object |-> object]
    /\ stdout' = display_type_lines(object)
    /\ result' = NoResult
    /\ pc' = IF pc = "call" THEN "done" ELSE "ran"
    /\ UNCHANGED <<has_capstone, byteorder, current_layer, ps1, last_switch>>

\* the names construct_locals lists, as help prints them
help ==
    /\ pc = "shell"
    /\ call' = [cmd |-> "help"]
    /\ stdout' = <<[kind |-> "help", text |-> "Methods:"],
                   [kind |-> "help", text |-> "dt"], [kind |-> "help", text |-> "display_type"],
                   [kind |-> "help", text |-> "db"], [kind |-> "help", text |-> "display_bytes"],
                   [kind |-> "help", text |-> "dw"], [kind |-> "help", text |-> "display_words"],
                   [kind |-> "help", text |-> "dd"],
                   [kind |-> "help", text |-> "display_doublewords"],
                   [kind |-> "help", text |-> "dq"],
                   [kind |-> "help", text |-> "display_quadwords"],
                   [kind |-> "help", text |-> "dis"], [kind |-> "help", text |-> "disassemble"],
                   [kind |-> "help", text |-> "cl"], [kind |-> "help", text |-> "change_layer"],
                   [kind |-> "help", text |-> "hh"], [kind |-> "help", text |-> "help"],
                   [kind |-> "help", text |-> "Variables:"],
                   [kind |-> "help", text |-> "context"], [kind |-> "help", text |-> "self"]>>
    /\ result' = NoResult
    /\ pc' = "ran"
    /\ UNCHANGED <<has_capstone, byteorder, current_layer, ps1, last_switch>>

\* code.interact shows the prompt again, whether the command returned or raised
prompt ==
    /\ pc = "ran"
    /\ pc' = "shell"
    /\ call' = [cmd |-> "prompt"]
    /\ stdout' = <<>>
    /\ result' = NoResult
    /\ UNCHANGED <<has_capstone, byteorder, current_layer, ps1, last_switch>>

\* code.interact returns and run returns its empty TreeGrid
terminate ==
    /\ pc = "shell"
    /\ pc' = "terminated"
    /\ call' = [cmd |-> "exit"]
    /\ stdout' = <<>>
    /\ result' = NoResult
    /\ UNCHANGED <<has_capstone, byteorder, current_layer, ps1, last_switch>>

Next ==
    \/ run
    \/ \E layer_name \in LayerArgs : change_layer(layer_name)
    \/ display_bytes
    \/ display_quadwords
    \/ display_doublewords
    \/ display_words
    \/ \E offset \in Offsets, count \in Counts, layer_name \in LayerArgs,
          architecture \in ArchArgs : disassemble(offset, count, layer_name, architecture)
    \/ \E object \in Objects : display_type(object)
    \/ help
    \/ prompt
    \/ terminate

Spec == Init /\ [][Next]_vars

(***************************************************************************)
(* SpecDt: display_type as a pure function of the object's member table.   *)
(***************************************************************************)
MemberNames == { <<"P", "c", "b">>, <<"F", "l", "i", "n", "k">>,
                 <<"U", "n", "i", "q", "u", "e", "I", "d">>, <<"x">> }

MemberOffsets == {0, 24, 736}

TypeNames == { <<"p", "o", "i", "n", "t", "e", "r">>,
               <<"_", "L", "I", "S", "T", "_", "E", "N", "T", "R", "Y">> }

Members == [name : MemberNames, relative_offset : MemberOffsets, type_name : TypeNames]

\* the member tables of at most MaxMembers members: a dict, so no name twice
MemberTables ==
    UNION { { t \in [1..k -> Members] :
                \A i, j \in 1..k : i # j => t[i].name # t[j].name } : k \in 0..MaxMembers }

InitDt ==
    /\ pc = "call"
    /\ has_capstone = TRUE
    /\ byteorder = "little"
    /\ current_layer = None
    /\ ps1 = None
    /\ last_switch = NoSwitch
    /\ \E object \in MemberTables : call = [cmd |-> "display_type", object |-> object]
    /\ stdout = <<>>
    /\ result = NoResult

NextDt == pc = "call" /\ display_type(call.object)

SpecDt == InitDt /\ [][NextDt]_vars

(***************************************************************************)
(* Properties of the session (Spec).                                       *)
(***************************************************************************)
ReadCmds == {"display_bytes", "display_quadwords", "display_doublewords",
             "display_words", "disassemble"}

\* a read command has just run
IsRead == pc = "ran" /\ call.cmd \in ReadCmds

\* the layer a read with no explicit layer is expected to use
ExpectedLayer ==
    IF last_switch = NoSwitch \/ ~Truthy(last_switch) THEN Primary ELSE last_switch

C1_ServedBySelected == (IsRead /\ ~Truthy(call.layer_name)) => result.layer = ExpectedLayer

C1_OnlyChangeLayer ==
    (pc \in {"shell", "ran"} /\ current_layer' # current_layer) => call'.cmd = "change_layer"

\* C1: after run, a read with no explicit layer is served by the layer named in the
\* most recent change_layer call, or by the primary layer when that call had no name
\* or there was none; only change_layer alters the current layer.
Thm_C1_ReadFollowsSwitch == [](C1_ServedBySelected) /\ [][C1_OnlyChangeLayer]_vars

Wit_C1_ReadAfterSwitch ==
    /\ IsRead
    /\ call.layer_name = None
    /\ last_switch = "kernel32"
    /\ result.layer = "kernel32"
    /\ result.raised = "none"
    /\ stdout # <<>>

C2_SwitchUnconditional ==
    (pc = "ran" /\ call.cmd = "change_layer" /\ Truthy(call.layer_name))
        => (current_layer = call.layer_name /\ result.raised = "none")

C2_SurfacesOnRead ==
    /\ (IsRead /\ ~Truthy(call.layer_name) /\ current_layer \notin DOMAIN Layers)
           => result.raised = "LayerNotFound"
    /\ (IsRead /\ result.raised = "LayerNotFound") => result.layer \notin DOMAIN Layers

C2_FailedReadKeepsState ==
    (call'.cmd \in ReadCmds /\ result'.raised # "none")
        => (current_layer' = current_layer /\ ps1' = ps1 /\ pc' = "ran")

\* C2: change_layer(name) sets the current layer to any supplied name, registered or
\* not, without failing; an unknown name shows only as a layer-not-found error of the
\* next read that omits the layer, and the failed read leaves the current layer as it was.
Thm_C2_SwitchNotValidated ==
    [](C2_SwitchUnconditional /\ C2_SurfacesOnRead) /\ [][C2_FailedReadKeepsState]_vars

Wit_C2_UnknownLayerRead ==
    /\ IsRead
    /\ call.layer_name = None
    /\ current_layer = "bogus"
    /\ last_switch = "bogus"
    /\ result.raised = "LayerNotFound"

IsDisassemble == pc = "ran" /\ call.cmd = "disassemble"

\* C3: with the decoder available, a supported architecture override decides the
\* decode mode, whatever the type of the target layer.
Cex_C3_OverrideWins ==
    (IsDisassemble /\ has_capstone /\ result.raised = "none" /\ call.count > 0
        /\ call.architecture \in DOMAIN disasm_types)
        => result.decoder = disasm_types[call.architecture]

\* C4: with the decoder available, a target layer that is no paged Intel layer and no
\* known architecture override, disassemble decodes nothing, prints an 'unavailable'
\* notice and raises nothing.
Cex_C4_UnknownArchNotice ==
    (IsDisassemble /\ has_capstone
        /\ result.raised \notin {"LayerNotFound", "ReadError"}
        /\ ~Layers[result.layer].is_Intel
        /\ call.architecture \notin DOMAIN disasm_types)
        => /\ result.raised = "none"
           /\ \A i \in 1..Len(stdout) : stdout[i].kind # "insn"
           /\ \E i \in 1..Len(stdout) : stdout[i].kind = "notice"

\* the layer a call names, and whether a read of it succeeds
TargetLayer == IF Truthy(call.layer_name) THEN call.layer_name ELSE current_layer

ReadSucceeds ==
    /\ TargetLayer \in DOMAIN Layers
    /\ call.offset + call.count <= Layers[TargetLayer].size

\* C5 as stated: without a decoder backend every disassemble call, whatever its
\* layer, prints the notice, decodes nothing and raises nothing.
Cex_C5_AlwaysNotice ==
    (IsDisassemble /\ ~has_capstone)
        => (result.raised = "none" /\ stdout = <<CapstoneNotice>>)

\* C5 as amended: without a decoder backend a disassemble call whose read succeeds
\* prints the notice alone and raises nothing, whatever the architecture argument;
\* one whose read fails raises the read's error and prints nothing.
Thm_C5_NoticeAfterRead ==
    (IsDisassemble /\ ~has_capstone)
        => /\ \A i \in 1..Len(stdout) : stdout[i].kind # "insn"
           /\ ReadSucceeds => (result.raised = "none" /\ stdout = <<CapstoneNotice>>)
           /\ ~ReadSucceeds => (result.raised \in {"LayerNotFound", "ReadError"}
                                  /\ stdout = <<>>)

Wit_C5_NoticeOnOddArch ==
    /\ IsDisassemble
    /\ ~has_capstone
    /\ call.architecture = "mips"
    /\ result.layer = "memory_layer"
    /\ call.count > 0
    /\ result.raised = "none"
    /\ stdout = <<CapstoneNotice>>

(***************************************************************************)
(* Properties of _display_data (SpecFmt).                                  *)
(***************************************************************************)
FmtDone == pc = "done" /\ call.cmd = "_display_data"

\* the element width of a format string
Width == CASE call.format_string = "B" -> 1
           [] call.format_string = "H" -> 2
           [] call.format_string = "I" -> 4
           [] call.format_string = "Q" -> 8

\* the bytes the formatter is to consume
Used == Len(call.data) - (Len(call.data) % Width)

\* the cells row k holds, and the slots of every row
Present(k) == (IF Used - 16 * (k - 1) < 16 THEN Used - 16 * (k - 1) ELSE 16) \div Width

Slots == 16 \div Width

\* the text of slot j of a row's hex panel
SlotText(row, j) ==
    SubSeq(row.hex_data, (j - 1) * (2 * Width + 1) + 1, (j - 1) * (2 * Width + 1) + 2 * Width)

IsHexDigit(c) == \E n \in 1..16 : HexDigits[n] = c

\* the bytes of cell j of row k, most significant first
CellBytes(k, j) ==
    LET b == SubSeq(call.data, 16 * (k - 1) + (j - 1) * Width + 1, 16 * (k - 1) + j * Width)
    IN  IF byteorder = "little" THEN Reverse(b) ELSE b

RECURSIVE ParseHexDigits(_)
ParseHexDigits(s) ==
    IF s = <<>> THEN 0
    ELSE 16 * ParseHexDigits(SubSeq(s, 1, Len(s) - 1)) + HexVal(s[Len(s)])

\* the number a "0x..." label denotes
ParseHex(s) == ParseHexDigits(SubSeq(s, 3, Len(s)))

HexSlotsOf(row) ==
    Cardinality({j \in 1..Slots : \A i \in 1..(2 * Width) : IsHexDigit(SlotText(row, j)[i])})

RECURSIVE SumHexSlots(_)
SumHexSlots(k) == IF k = 0 THEN 0 ELSE HexSlotsOf(stdout[k]) + SumHexSlots(k - 1)

\* C6: _display_data consumes L - (L mod w) bytes, prints ceil of that over 16 rows,
\* and every row has 16 / w slots: the present cells as 2w hex digits, then the
\* absent ones as 2w spaces.
Thm_C6_RowsAndSlots ==
    FmtDone =>
        /\ Len(stdout) = (Used + 15) \div 16
        /\ Width * SumHexSlots(Len(stdout)) = Used
        /\ \A k \in 1..Len(stdout) :
              /\ Len(stdout[k].hex_data) = Slots * 2 * Width + (Slots - 1)
              /\ \A j \in 1..(Slots - 1) : stdout[k].hex_data[j * (2 * Width + 1)] = " "
              /\ \A j \in 1..Slots :
                    IF j <= Present(k)
                    THEN /\ \A i \in 1..(2 * Width) : IsHexDigit(SlotText(stdout[k], j)[i])
                         /\ unhexlify(SlotText(stdout[k], j)) = CellBytes(k, j)
                    ELSE SlotText(stdout[k], j) = [i \in 1..(2 * Width) |-> " "]

Wit_C6_ShortLastRow ==
    /\ FmtDone
    /\ Width = 4
    /\ Len(call.data) % Width # 0
    /\ Len(stdout) = 2
    /\ Present(2) = 3

\* the panel of row k: w characters per present cell, cells joined by the connector
PanelMatches(k, Glyph(_)) ==
    LET c == IF Width >= 2 THEN 1 ELSE 0
        panel == stdout[k].ascii_data
    IN  /\ Len(panel) = Present(k) * Width + (Present(k) - 1) * c
        /\ \A j \in 1..Present(k) : \A i \in 1..Width :
              panel[(j - 1) * (Width + c) + i] = Glyph(CellBytes(k, j)[i])
        /\ \A j \in 1..(Present(k) - 1) : c = 1 => panel[j * (Width + 1)] = " "

\* '.' outside the open interval (0x20, 0x7E)
GlyphTo7E(b) == IF 32 < b /\ b < 126 THEN chr(b) ELSE "."

\* '.' outside the open interval (0x20, 0x7F)
GlyphTo7F(b) == IF 32 < b /\ b < 127 THEN chr(b) ELSE "."

\* C7 as stated: one panel character per byte of each rendered cell, '.' for a byte
\* outside (0x20, 0x7E) and the byte's own character otherwise; cells joined by one
\* space for widths >= 2 and by nothing for width 1.
Cex_C7_PanelTo7E ==
    (FmtDone /\ call.ascii) => \A k \in 1..Len(stdout) : PanelMatches(k, GlyphTo7E)

\* C7 as amended: the same with '.' for a byte outside (0x20, 0x7F), so that 0x7E is
\* printed as '~'; the characters of a cell follow its hex digits, most significant
\* byte first.
Thm_C7_PanelTo7F ==
    (FmtDone /\ call.ascii) => \A k \in 1..Len(stdout) : PanelMatches(k, GlyphTo7F)

Wit_C7_BoundaryBytes ==
    /\ FmtDone
    /\ call.ascii
    /\ Width = 2
    /\ Len(stdout) >= 2
    /\ \E i, j \in 1..Used : call.data[i] = 126 /\ call.data[j] = 32
    /\ \E i, j \in 1..Used : call.data[i] = 127 /\ call.data[j] = 33

Cell41 == <<"0", "0", "0", "0", "0", "0", "4", "1">>

IsExampleCall ==
    /\ FmtDone
    /\ byteorder = "little"
    /\ call.offset = 4096
    /\ call.data = <<65, 0, 0, 0, 65, 0, 0, 0, 65, 0, 0, 0, 65, 0, 0, 0>>
    /\ call.format_string = "I"
    /\ call.ascii

ExampleRow ==
    /\ Len(stdout) = 1
    /\ stdout[1].address = <<"0", "x", "1", "0", "1", "0">>
    /\ stdout[1].hex_data = Join(<<" ">>, <<Cell41, Cell41, Cell41, Cell41>>)

\* C8 as stated: offset 0x1000, 41 00 00 00 four times, width 4: one row labelled
\* 0x1010 with cells 00000041 four times and the panel 'A A A A'.
Cex_C8_PanelAAAA ==
    IsExampleCall => (ExampleRow /\ stdout[1].ascii_data = <<"A", " ", "A", " ", "A", " ", "A">>)

\* C8 as amended: on a little-endian host the same row, with the panel
\* '...A ...A ...A ...A'.
Thm_C8_PanelDotsA ==
    IsExampleCall =>
        (ExampleRow /\ stdout[1].ascii_data =
            Join(<<" ">>, <<<<".", ".", ".", "A">>, <<".", ".", ".", "A">>,
                            <<".", ".", ".", "A">>, <<".", ".", ".", "A">>>>))

Wit_C8_Example == IsExampleCall /\ stdout # <<>>

\* C10: the label of the k-th row (k = 0, 1, ...) is offset + 16 * (k + 1), so the
\* labels of consecutive rows differ by 16.
Thm_C10_LabelAfterRow ==
    FmtDone =>
        /\ \A k \in 1..Len(stdout) :
              /\ SubSeq(stdout[k].address, 1, 2) = <<"0", "x">>
              /\ ParseHex(stdout[k].address) = call.offset + 16 * k
        /\ \A k \in 1..(Len(stdout) - 1) :
              ParseHex(stdout[k + 1].address) - ParseHex(stdout[k].address) = 16

Wit_C10_ThreeRows ==
    /\ FmtDone
    /\ call.offset = 9
    /\ Len(stdout) = 3
    /\ ParseHex(stdout[3].address) = 57

(***************************************************************************)
(* Properties of display_type (SpecDt).                                    *)
(***************************************************************************)
DtDone == pc = "done" /\ call.cmd = "display_type"

\* the length of hex(n) for n >= 0
RECURSIVE HexLen(_)
HexLen(n) == IF n < 16 THEN 3 ELSE 1 + HexLen(n \div 16)

\* the widths of the offset and name columns
OffsetWidth ==
    IF call.object = <<>> THEN 0
    ELSE CHOOSE w \in {HexLen(call.object[i].relative_offset) : i \in 1..Len(call.object)} :
            \A i \in 1..Len(call.object) : HexLen(call.object[i].relative_offset) <= w

NameWidth ==
    IF call.object = <<>> THEN 0
    ELSE CHOOSE w \in {Len(call.object[i].name) : i \in 1..Len(call.object)} :
            \A i \in 1..Len(call.object) : Len(call.object[i].name) <= w

AllSpaces(s) == \A i \in 1..Len(s) : s[i] = " "

====
